---- MODULE Spec2Model ----
(***************************************************************************)
(* The 3D product previewer: the model cache (loadGLTFObject), the texture *)
(* compositor (DRAW_TEXTURE_MAP, applyTexture) and the preview state       *)
(* controller (setupImagePreviewControls, main).                           *)
(*                                                                         *)
(* Scheduling.  The program is single threaded.  An async function runs    *)
(* synchronously up to an await; the rest of it is a continuation that the *)
(* engine puts on the FIFO microtask queue when the awaited promise is     *)
(* settled.  Host tasks (a DOM event, the settling of a load or of a       *)
(* decode) run only when the microtask queue is empty.  One host task may  *)
(* settle several loads of the same URL at once (the loader answers        *)
(* duplicate requests for one URL from one response), which puts their     *)
(* continuations on the queue together.                                    *)
(*                                                                         *)
(* Numbers.  The drawing recipes compute in exact rationals <<n, d>>; the  *)
(* rounding of the floating point arithmetic is not modelled.              *)
(***************************************************************************)
EXTENDS Integers, Sequences, FiniteSets, TLC

\* ----------------------------------------------------------------- bounds
\* how many events (model selects, the startup select included, image
\* uploads and color inputs) a run has
MaxEvents == 4
\* how many handler invocations are suspended at an await at once
MaxInFlight == 2
\* the largest width and height, in pixels, of the images the drawing
\* routines are tried on (SpecDraw)
MaxImageSide == 6

\* ------------------------------------------------------------ input values
\* the values of the model radio inputs: two models with a drawing routine,
\* one that loads but has none, one whose asset's first child is no mesh
Names == {"cup", "cushion", "lamp", "group"}
NoName == ""
\* what the file input can hold; NoFile is files.item(0) being null
Files == {"wide.png", "tall.png", "notes.txt"}
NoFile == ""
\* the values the color input takes
Colors == {"#112233", "#ffffff"}

\* createImageBitmap(file) fulfils for an image file and rejects otherwise
Decodable(f) == f \in {"wide.png", "tall.png"}
Bitmap(f) ==
    IF f = "wide.png" THEN [file |-> f, width |-> 400, height |-> 200]
    ELSE IF f = "tall.png" THEN [file |-> f, width |-> 300, height |-> 600]
    ELSE [file |-> f, width |-> 0, height |-> 0]
\* null, as the value of activeImage
NoImage == [file |-> NoFile, width |-> 0, height |-> 0]

\* gltf.scene.children[0] instanceof THREE.Mesh, a property of the asset file
FirstChildIsMesh(name) == name # "group"

\* --------------------------------------------------------------- rationals
RECURSIVE GCD(_, _)
GCD(a, b) == IF b = 0 THEN a ELSE GCD(b, a % b)
Abs(a) == IF a < 0 THEN -a ELSE a
Rat(n, d) ==
    LET g == GCD(Abs(n), Abs(d))
        s == IF d < 0 THEN -1 ELSE 1
    IN  <<(s * n) \div g, (s * d) \div g>>
Whole(n) == <<n, 1>>
RAdd(p, q) == Rat(p[1] * q[2] + q[1] * p[2], p[2] * q[2])
RSub(p, q) == Rat(p[1] * q[2] - q[1] * p[2], p[2] * q[2])
RMul(p, q) == Rat(p[1] * q[1], p[2] * q[2])
RDiv(p, q) == Rat(p[1] * q[2], p[2] * q[1])
RLess(p, q) == p[1] * q[2] < q[1] * p[2]

\* ------------------------------------------------------ texture compositor
\* setupBaseCanvas: canvas.width = canvas.height = 2048
CanvasSize == 2048
\* DRAW_TEXTURE_MAP's keys
Registered == {"cup", "cushion"}

\* A canvas after drawing: the fill, the context's transform (scale, then a
\* rotation in degrees) and the image drawn with its destination rectangle.
Surface(fill, sx, sy, rot, image, x, y, w, h) ==
    [fill |-> fill, sx |-> sx, sy |-> sy, rot |-> rot,
     image |-> image.file, x |-> x, y |-> y, w |-> w, h |-> h]
\* the material the asset comes with, before any applyTexture
OrigMaterial ==
    Surface("gltf", Whole(1), Whole(1), 0, NoImage,
            Whole(0), Whole(0), Whole(0), Whole(0))

DrawCup(color, image) ==
    IF image = NoImage
    THEN Surface(color, Rat(-1, 4), Rat(1, 2), -180, NoImage,
                 Whole(0), Whole(0), Whole(0), Whole(0))
    ELSE LET aspectRatio == Rat(image.width, image.height)
             originalImageWidth == RSub(Whole(CanvasSize), Rat(CanvasSize, 4))
             originalImageHeight == Whole(CanvasSize)
             imageWidth == IF RLess(aspectRatio, Whole(1))
                           THEN RMul(originalImageWidth, aspectRatio)
                           ELSE originalImageWidth
             imageHeight == IF RLess(Whole(1), aspectRatio)
                            THEN RMul(originalImageHeight,
                                      RDiv(Whole(1), aspectRatio))
                            ELSE originalImageHeight
         IN  Surface(color, Rat(-1, 4), Rat(1, 2), -180, image,
                RAdd(Whole(CanvasSize * 2 + 150),
                     RDiv(RSub(originalImageWidth, imageWidth), Whole(2))),
                RAdd(RMul(Whole(-1),
                          RAdd(Whole(CanvasSize), Rat(CanvasSize, 2))),
                     RDiv(RSub(originalImageHeight, imageHeight), Whole(2))),
                imageWidth, imageHeight)

DrawCushion(color, image) ==
    IF image = NoImage
    THEN Surface(color, Whole(1), Whole(1), 0, NoImage,
                 Whole(0), Whole(0), Whole(0), Whole(0))
    ELSE LET aspectRatio == Rat(image.width, image.height)
             insetX == IF RLess(aspectRatio, Whole(1))
                       THEN RAdd(Whole(200),
                               RDiv(RSub(Whole(CanvasSize),
                                         RMul(Whole(CanvasSize), aspectRatio)),
                                    Whole(2)))
                       ELSE Whole(200)
             insetY == IF RLess(Whole(1), aspectRatio)
                       THEN RAdd(Whole(200),
                               RDiv(RSub(Whole(CanvasSize),
                                         RDiv(Whole(CanvasSize), aspectRatio)),
                                    Whole(2)))
                       ELSE Whole(200)
         IN  Surface(color, Rat(-1, 2), Rat(1, 2), -90, image,
                RAdd(Whole(-CanvasSize), insetX),
                RAdd(Whole(-2 * CanvasSize), insetY),
                RSub(Whole(CanvasSize), RMul(Whole(2), insetX)),
                RSub(Whole(CanvasSize), RMul(Whole(2), insetY)))

\* no canvas: what applyTexture has when DRAW_TEXTURE_MAP[name] is undefined
NoSurface ==
    Surface("none", Whole(1), Whole(1), 0, NoImage,
            Whole(0), Whole(0), Whole(0), Whole(0))

\* the canvas applyTexture makes a texture of (lines 235-243): the routine
\* DRAW_TEXTURE_MAP[name] run on a fresh canvas, none without a routine
Composite(name, color, image) ==
    IF name \notin Registered THEN NoSurface
    ELSE IF name = "cup" THEN DrawCup(color, image)
    ELSE DrawCushion(color, image)

\* ------------------------------------------------------------------- state
VARIABLES
    pcMain,       \* where main / setupImagePreviewControls stands
    checked,      \* the value of the checked model radio input, if any
    listeners,    \* the change / input listeners are registered
    loopStarted,  \* animate() has run and setAnimationLoop was called
    objects,      \* every first child a load produced: [name, isMesh]
    material,     \* material[o]: the material of object o
    ModelCache,   \* name -> object (0: no entry)
    activeModel,  \* an object, 0 for null
    activeImage,  \* a bitmap or NoImage
    color,
    scene,        \* the model objects attached to the scene
    tasks,        \* the handler invocations in flight, by slot
    queue,        \* the microtask queue: task numbers, 0 for main
    loadCount,    \* name -> how many loader.loadAsync calls were started
    lastLoaded,   \* what the last successful loadGLTFObject returned
    events        \* how many events were dispatched

vars == <<pcMain, checked, listeners, loopStarted, objects, material,
          ModelCache, activeModel, activeImage, color, scene, tasks, queue,
          loadCount, lastLoaded, events>>

\* a slot for every handler invocation in flight
Slots == 1 .. MaxInFlight
\* a slot with no invocation in flight
Idle == [kind |-> "", arg |-> "", pc |-> "idle", res |-> 0, initial |-> FALSE]
HasFreeSlot == \E t \in Slots : tasks[t] = Idle
FreeSlot == CHOOSE t \in Slots :
                /\ tasks[t] = Idle
                /\ \A u \in Slots : u < t => tasks[u] # Idle
NameOf(o) == objects[o].name

Init ==
    /\ pcMain = "start"
    /\ checked \in Names \cup {NoName}
    /\ listeners = FALSE
    /\ loopStarted = FALSE
    /\ objects = <<>>
    /\ material = <<>>
    /\ ModelCache = [n \in Names |-> 0]
    /\ activeModel = 0
    /\ activeImage = NoImage
    /\ color = "#ffffff"
    /\ scene = {}
    /\ tasks = [t \in Slots |-> Idle]
    /\ queue = <<>>
    /\ loadCount = [n \in Names |-> 0]
    /\ lastLoaded = 0
    /\ events = 0

\* applyTexture(model, image, color): the materials afterwards
ApplyTexture_NoRoutineCheck(mat, model, image, col) ==
    [mat EXCEPT ![model] = Composite(NameOf(model), col, image)]

ApplyTexture(mat, model, image, col) ==
    IF Composite(NameOf(model), col, image) = NoSurface
    THEN mat
    ELSE [mat EXCEPT ![model] = Composite(NameOf(model), col, image)]

\* the async function of task t has returned or thrown; when it is the
\* startup select, setupImagePreviewControls is what awaited it (line 277)
Finish(t) ==
    /\ tasks' = [tasks EXCEPT ![t] = Idle]
    /\ queue' = IF tasks[t].initial THEN Append(Tail(queue), 0) ELSE Tail(queue)

\* ------------------------------------------------------------- model cache
\* setActiveModel(name) up to its first suspension: loadGLTFObject(name)
\* returns the cached entry at once (lines 120, 133), or starts
\* loader.loadAsync and suspends (line 121)
CallSetActiveModel(name, initial) ==
    IF ModelCache[name] # 0
    THEN /\ tasks' = [tasks EXCEPT ![FreeSlot] =
                          [kind |-> "select", arg |-> name,
                           pc |-> "haveModel", res |-> ModelCache[name],
                           initial |-> initial]]
         /\ queue' = Append(queue, FreeSlot)
         /\ lastLoaded' = ModelCache[name]
         /\ UNCHANGED loadCount
    ELSE /\ tasks' = [tasks EXCEPT ![FreeSlot] =
                          [kind |-> "select", arg |-> name,
                           pc |-> "loading", res |-> 0,
                           initial |-> initial]]
         /\ loadCount' = [loadCount EXCEPT ![name] = @ + 1]
         /\ UNCHANGED <<queue, lastLoaded>>

\* the host settles the load of task t: the promise of loader.loadAsync is
\* fulfilled (its .then picks gltf.scene.children[0], a new object) or rejected
LoadSettle(t, fulfilled) ==
    /\ tasks[t].pc = "loading"
    /\ \A i \in DOMAIN queue :
          /\ queue[i] # 0
          /\ tasks[queue[i]].pc \in {"loadFulfilled", "loadRejected"}
          /\ tasks[queue[i]].arg = tasks[t].arg
    /\ IF fulfilled
       THEN /\ objects' = Append(objects,
                    [name |-> tasks[t].arg,
                     isMesh |-> FirstChildIsMesh(tasks[t].arg)])
            /\ material' = Append(material, OrigMaterial)
            /\ tasks' = [tasks EXCEPT ![t].pc = "loadFulfilled",
                                      ![t].res = Len(objects) + 1]
       ELSE /\ tasks' = [tasks EXCEPT ![t].pc = "loadRejected"]
            /\ UNCHANGED <<objects, material>>
    /\ queue' = Append(queue, t)
    /\ UNCHANGED <<pcMain, checked, listeners, loopStarted, ModelCache,
                   activeModel, activeImage, color, scene, loadCount,
                   lastLoaded, events>>

\* CacheAfterLoad without the instanceof check of line 125
CacheAfterLoad_NoMeshCheck(name, child) ==
    [ModelCache EXCEPT ![name] = child]

\* ModelCache after lines 125-131, for the first child `child` of `name`
CacheAfterLoad(name, child) ==
    IF objects[child].isMesh
    THEN [ModelCache EXCEPT ![name] = child]
    ELSE ModelCache

\* loadGLTFObject resumes after its await (lines 125-133) and returns
LoadGLTFObjectResume(t) ==
    /\ queue # <<>> /\ Head(queue) = t
    /\ tasks[t].pc = "loadFulfilled"
    /\ ModelCache' = CacheAfterLoad(tasks[t].arg, tasks[t].res)
    /\ tasks' = [tasks EXCEPT ![t].pc = "haveModel",
                              ![t].res = ModelCache'[tasks[t].arg]]
    /\ lastLoaded' = IF ModelCache'[tasks[t].arg] # 0
                     THEN ModelCache'[tasks[t].arg] ELSE lastLoaded
    /\ queue' = Append(Tail(queue), t)
    /\ UNCHANGED <<pcMain, checked, listeners, loopStarted, objects, material,
                   activeModel, activeImage, color, scene, loadCount,
                   events>>

\* the await of line 121 throws: loadGLTFObject and setActiveModel reject.
\* The change listener's promise is then rejected and nobody handles it; at
\* startup the rejection leaves setupImagePreviewControls at line 277 and
\* main at line 337.
LoadGLTFObjectThrow(t) ==
    /\ queue # <<>> /\ Head(queue) = t
    /\ tasks[t].pc = "loadRejected"
    /\ tasks' = [tasks EXCEPT ![t] = Idle]
    /\ queue' = Tail(queue)
    /\ pcMain' = IF tasks[t].initial THEN "aborted" ELSE pcMain
    /\ UNCHANGED <<checked, listeners, loopStarted, objects, material,
                   ModelCache, activeModel, activeImage, color, scene,
                   loadCount, lastLoaded, events>>

\* ------------------------------------------------ preview state controller
\* SetActiveModelResume with the scene.remove of lines 264-266 moved before
\* the null check of lines 260-262
\* where setActiveModel stands at the await of line 269: "retextured" when
\* line 264 found a model of the same identifier active, "textured" otherwise
AfterSwap(t) ==
    IF activeModel # 0 /\ NameOf(activeModel) = tasks[t].arg
    THEN "retextured"
    ELSE "textured"

SetActiveModelResume_RemoveFirst(t) ==
    /\ queue # <<>> /\ Head(queue) = t
    /\ tasks[t].pc = "haveModel"
    /\ scene' = IF activeModel # 0 THEN scene \ {activeModel} ELSE scene
    /\ IF tasks[t].res = 0
       THEN /\ Finish(t)
            /\ UNCHANGED <<activeModel, material>>
       ELSE /\ activeModel' = tasks[t].res
            /\ material' = ApplyTexture(material, tasks[t].res,
                                        activeImage, color)
            /\ tasks' = [tasks EXCEPT ![t].pc = AfterSwap(t)]
            /\ queue' = Append(Tail(queue), t)
    /\ UNCHANGED <<pcMain, checked, listeners, loopStarted, objects,
                   ModelCache, activeImage, color, loadCount, lastLoaded,
                   events>>

\* setActiveModel resumes with newModel (lines 260-269) and suspends at the
\* await of line 269
SetActiveModelResume(t) ==
    /\ queue # <<>> /\ Head(queue) = t
    /\ tasks[t].pc = "haveModel"
    /\ IF tasks[t].res = 0
       THEN /\ Finish(t)
            /\ UNCHANGED <<scene, activeModel, material>>
       ELSE /\ scene' = IF activeModel # 0 THEN scene \ {activeModel}
                        ELSE scene
            /\ activeModel' = tasks[t].res
            /\ material' = ApplyTexture(material, tasks[t].res,
                                        activeImage, color)
            /\ tasks' = [tasks EXCEPT ![t].pc = AfterSwap(t)]
            /\ queue' = Append(Tail(queue), t)
    /\ UNCHANGED <<pcMain, checked, listeners, loopStarted, objects, ModelCache,
                   activeImage, color, loadCount, lastLoaded, events>>

\* setActiveModel resumes after the await of line 269: scene.add (line 271)
SetActiveModelAdd(t) ==
    /\ queue # <<>> /\ Head(queue) = t
    /\ tasks[t].pc \in {"textured", "retextured"}
    /\ scene' = scene \cup {tasks[t].res}
    /\ Finish(t)
    /\ UNCHANGED <<pcMain, checked, listeners, loopStarted, objects, material,
                   ModelCache, activeModel, activeImage, color, loadCount,
                   lastLoaded, events>>

MainStart_ListenersFirst ==
    /\ pcMain = "start"
    /\ listeners' = TRUE
    /\ IF checked = NoName
       THEN /\ pcMain' = "awaitSetup"
            /\ queue' = Append(queue, 0)
            /\ UNCHANGED <<tasks, loadCount, lastLoaded, events>>
       ELSE /\ CallSetActiveModel(checked, TRUE)
            /\ events' = events + 1
            /\ pcMain' = "awaitSelect"
    /\ UNCHANGED <<checked, loopStarted, objects, material, ModelCache,
                   activeModel, activeImage, color, scene>>

\* main() up to its await (lines 331-337, 253-277): with a radio input
\* checked, the startup select; with none, the listeners are registered at
\* once (lines 280-327)
MainStart ==
    /\ pcMain = "start"
    /\ IF checked = NoName
       THEN /\ listeners' = TRUE
            /\ pcMain' = "awaitSetup"
            /\ queue' = Append(queue, 0)
            /\ UNCHANGED <<tasks, loadCount, lastLoaded, events>>
       ELSE /\ CallSetActiveModel(checked, TRUE)
            /\ events' = events + 1
            /\ pcMain' = "awaitSelect"
            /\ UNCHANGED listeners
    /\ UNCHANGED <<checked, loopStarted, objects, material, ModelCache,
                   activeModel, activeImage, color, scene>>

\* setupImagePreviewControls resumes after line 277 and registers the
\* listeners (lines 280-327); then main resumes after line 337, renders
\* once and starts the render loop (lines 339-353)
MainResume ==
    /\ queue # <<>> /\ Head(queue) = 0
    /\ IF pcMain = "awaitSelect"
       THEN /\ listeners' = TRUE
            /\ pcMain' = "awaitSetup"
            /\ queue' = Append(Tail(queue), 0)
            /\ UNCHANGED loopStarted
       ELSE /\ loopStarted' = TRUE
            /\ pcMain' = "running"
            /\ queue' = Tail(queue)
            /\ UNCHANGED listeners
    /\ UNCHANGED <<checked, objects, material, ModelCache, activeModel,
                   activeImage, color, scene, tasks, loadCount, lastLoaded,
                   events>>

\* the user checks another model radio input: its change listener (lines
\* 281-287)
ModelChange(name) ==
    /\ listeners /\ queue = <<>>
    /\ name # checked
    /\ checked' = name
    /\ events < MaxEvents /\ HasFreeSlot
    /\ events' = events + 1
    /\ CallSetActiveModel(name, FALSE)
    /\ UNCHANGED <<pcMain, listeners, loopStarted, objects, material,
                   ModelCache, activeModel, activeImage, color, scene>>

\* the image input's change listener up to its await (lines 296-306); res
\* keeps the model that line 299 found active
ImageUploadChange(file) ==
    /\ listeners /\ queue = <<>>
    /\ events < MaxEvents
    /\ events' = events + 1
    /\ IF file = NoFile \/ activeModel = 0
       THEN UNCHANGED tasks
       ELSE /\ HasFreeSlot
            /\ tasks' = [tasks EXCEPT ![FreeSlot] =
                         [kind |-> "upload", arg |-> file, pc |-> "decoding",
                          res |-> activeModel, initial |-> FALSE]]
    /\ UNCHANGED <<pcMain, checked, listeners, loopStarted, objects, material,
                   ModelCache, activeModel, activeImage, color, scene, queue,
                   loadCount, lastLoaded>>

\* the host settles createImageBitmap(file) of task t
DecodeSettle(t) ==
    /\ tasks[t].pc = "decoding"
    /\ queue = <<>>
    /\ tasks' = [tasks EXCEPT ![t].pc = IF Decodable(tasks[t].arg)
                                        THEN "decoded" ELSE "decodeFailed"]
    /\ queue' = Append(queue, t)
    /\ UNCHANGED <<pcMain, checked, listeners, loopStarted, objects, material,
                   ModelCache, activeModel, activeImage, color, scene,
                   loadCount, lastLoaded, events>>

\* ImageUploadResume with line 312 run before line 307: the texture is
\* drawn from the image that was active before
ImageUploadResume_StaleImage(t) ==
    /\ queue # <<>> /\ Head(queue) = t
    /\ tasks[t].pc \in {"decoded", "decodeFailed"}
    /\ IF tasks[t].pc = "decoded"
       THEN /\ activeImage' = Bitmap(tasks[t].arg)
            /\ material' = ApplyTexture(material, activeModel,
                                        activeImage, color)
       ELSE UNCHANGED <<activeImage, material>>
    /\ Finish(t)
    /\ UNCHANGED <<pcMain, checked, listeners, loopStarted, objects,
                   ModelCache, activeModel, color, scene, loadCount,
                   lastLoaded, events>>

\* ImageUploadResume with a catch block that resets the image
\* (activeImage = null, then the redraw) instead of only returning
ImageUploadResume_ClearsOnFailure(t) ==
    /\ queue # <<>> /\ Head(queue) = t
    /\ tasks[t].pc \in {"decoded", "decodeFailed"}
    /\ activeImage' = IF tasks[t].pc = "decoded" THEN Bitmap(tasks[t].arg)
                      ELSE NoImage
    /\ material' = ApplyTexture(material, activeModel, activeImage', color)
    /\ Finish(t)
    /\ UNCHANGED <<pcMain, checked, listeners, loopStarted, objects,
                   ModelCache, activeModel, color, scene, loadCount,
                   lastLoaded, events>>

\* ImageUploadResume with line 312 texturing the model that was active when
\* the listener was called, as if line 299 had kept it in a local
ImageUploadResume_DispatchModel(t) ==
    /\ queue # <<>> /\ Head(queue) = t
    /\ tasks[t].pc \in {"decoded", "decodeFailed"}
    /\ IF tasks[t].pc = "decoded"
       THEN /\ activeImage' = Bitmap(tasks[t].arg)
            /\ material' = ApplyTexture(material, tasks[t].res,
                                        Bitmap(tasks[t].arg), color)
       ELSE UNCHANGED <<activeImage, material>>
    /\ Finish(t)
    /\ UNCHANGED <<pcMain, checked, listeners, loopStarted, objects,
                   ModelCache, activeModel, color, scene, loadCount,
                   lastLoaded, events>>

\* ImageUploadResume that drops its bitmap while another upload is still
\* being decoded, leaving the image to the upload that completes last only
\* when nothing else is pending
ImageUploadResume_YieldsToPending(t) ==
    /\ queue # <<>> /\ Head(queue) = t
    /\ tasks[t].pc \in {"decoded", "decodeFailed"}
    /\ IF /\ tasks[t].pc = "decoded"
          /\ ~ \E u \in Slots \ {t} : tasks[u].kind = "upload"
       THEN /\ activeImage' = Bitmap(tasks[t].arg)
            /\ material' = ApplyTexture(material, activeModel,
                                        Bitmap(tasks[t].arg), color)
       ELSE UNCHANGED <<activeImage, material>>
    /\ Finish(t)
    /\ UNCHANGED <<pcMain, checked, listeners, loopStarted, objects,
                   ModelCache, activeModel, color, scene, loadCount,
                   lastLoaded, events>>

\* the image listener resumes after line 306: lines 307 and 312, or the
\* catch of lines 308-310
ImageUploadResume(t) ==
    /\ queue # <<>> /\ Head(queue) = t
    /\ tasks[t].pc \in {"decoded", "decodeFailed"}
    /\ IF tasks[t].pc = "decoded"
       THEN /\ activeImage' = Bitmap(tasks[t].arg)
            /\ material' = ApplyTexture(material, activeModel,
                                        Bitmap(tasks[t].arg), color)
       ELSE UNCHANGED <<activeImage, material>>
    /\ Finish(t)
    /\ UNCHANGED <<pcMain, checked, listeners, loopStarted, objects, ModelCache,
                   activeModel, color, scene, loadCount, lastLoaded,
                   events>>

\* ColorInput without the applyTexture of lines 324-326
ColorInput_NoRedraw(value) ==
    /\ listeners /\ queue = <<>>
    /\ events < MaxEvents
    /\ events' = events + 1
    /\ color' = value
    /\ UNCHANGED <<pcMain, checked, listeners, loopStarted, objects, material,
                   ModelCache, activeModel, activeImage, scene, tasks, queue,
                   loadCount, lastLoaded>>

\* the color input's input listener (lines 321-327)
ColorInput(value) ==
    /\ listeners /\ queue = <<>>
    /\ events < MaxEvents
    /\ events' = events + 1
    /\ color' = value
    /\ material' = IF activeModel # 0
                   THEN ApplyTexture(material, activeModel, activeImage, value)
                   ELSE material
    /\ UNCHANGED <<pcMain, checked, listeners, loopStarted, objects, ModelCache,
                   activeModel, activeImage, scene, tasks, queue, loadCount,
                   lastLoaded>>

Next ==
    \/ MainStart
    \/ MainResume
    \/ \E name \in Names : ModelChange(name)
    \/ \E t \in Slots : \E fulfilled \in BOOLEAN : LoadSettle(t, fulfilled)
    \/ \E t \in Slots : LoadGLTFObjectResume(t)
    \/ \E t \in Slots : LoadGLTFObjectThrow(t)
    \/ \E t \in Slots : SetActiveModelResume(t)
    \/ \E t \in Slots : SetActiveModelAdd(t)
    \/ \E file \in Files \cup {NoFile} : ImageUploadChange(file)
    \/ \E t \in Slots : DecodeSettle(t)
    \/ \E t \in Slots : ImageUploadResume(t)
    \/ \E value \in Colors : ColorInput(value)

Spec == Init /\ [][Next]_vars
\* ------------------------------------------------- the compositor on its own
\* An image of every size up to MaxImageSide, a color and a model with a
\* drawing routine: the state in which a handler calls applyTexture.
SourceImages ==
    {[file |-> "image", width |-> w, height |-> h] :
        w \in 1 .. MaxImageSide, h \in 1 .. MaxImageSide}

InitDraw ==
    /\ pcMain = "draw"
    /\ checked \in Registered
    /\ listeners = TRUE
    /\ loopStarted = TRUE
    /\ objects = <<[name |-> checked, isMesh |-> TRUE]>>
    /\ material = <<OrigMaterial>>
    /\ ModelCache = [n \in Names |-> IF n = checked THEN 1 ELSE 0]
    /\ activeModel = 1
    /\ activeImage \in SourceImages
    /\ color \in Colors
    /\ scene = {1}
    /\ tasks = [t \in Slots |-> Idle]
    /\ queue = <<>>
    /\ loadCount = [n \in Names |-> IF n = checked THEN 1 ELSE 0]
    /\ lastLoaded = 1
    /\ events = 0

\* applyTexture(activeModel, activeImage, color), as at line 312
Draw ==
    /\ pcMain = "draw"
    /\ material' = ApplyTexture(material, activeModel, activeImage, color)
    /\ pcMain' = "drawn"
    /\ UNCHANGED <<checked, listeners, loopStarted, objects, ModelCache,
                   activeModel, activeImage, color, scene, tasks, queue,
                   loadCount, lastLoaded, events>>

NextDraw == Draw

SpecDraw == InitDraw /\ [][NextDraw]_vars

\* ------------------------------------------------------------------ claims
InFlight(kind) == {t \in Slots : tasks[t].kind = kind}

\* C1: in every state the model objects attached to the scene are none when
\* no model is active and exactly the active model's mesh otherwise.
C1_SceneIsActiveMesh ==
    scene = IF activeModel = 0 THEN {} ELSE {activeModel}

\* C2: whenever a model with a registered drawing routine is active, the
\* material of its mesh is the composite of its name, the current color and
\* the current image.
C2_MaterialIsCurrent ==
    (activeModel # 0 /\ NameOf(activeModel) \in Registered)
        => material[activeModel] =
               Composite(NameOf(activeModel), color, activeImage)
\* a registered model is active with an uploaded image and a picked color
C2_Witness ==
    /\ activeModel # 0 /\ NameOf(activeModel) \in Registered
    /\ activeImage # NoImage /\ color = "#112233"
    /\ InFlight("select") = {} /\ InFlight("upload") = {}

\* C3: loader.loadAsync is started at most once for every model identifier.
C3_LoadedAtMostOnce == \A n \in Names : loadCount[n] <= 1

\* C4: a cache entry, once stored, is never replaced by a different mesh.
C4_CacheEntryNeverReplaced ==
    [][\A n \in Names :
          ModelCache[n] # 0 => ModelCache'[n] = ModelCache[n]]_vars

\* C5: an image-upload event with a decodable file that arrives while no
\* model is active stores the decoded image as activeImage (at once, or by
\* starting the decode that will store it).
C5_ImageRetainedWithoutModel ==
    [][\A f \in Files :
          (Decodable(f) /\ activeModel = 0 /\ ImageUploadChange(f))
              => \/ activeImage' = Bitmap(f)
                 \/ \E t \in Slots : /\ tasks'[t].kind = "upload"
                                     /\ tasks'[t].arg = f
                                     /\ tasks'[t].pc = "decoding"]_vars

\* the steps of a model-select by which its loadGLTFObject fails and by
\* which setActiveModel then returns
FailingSelectStep(t) ==
    /\ tasks[t].kind = "select"
    /\ tasks'[t] # tasks[t]
    /\ \/ tasks[t].pc = "loading" /\ tasks'[t].pc = "loadRejected"
       \/ tasks[t].pc = "loading" /\ ~FirstChildIsMesh(tasks[t].arg)
       \/ tasks[t].pc = "loadRejected"
       \/ tasks[t].pc = "loadFulfilled" /\ ~objects[tasks[t].res].isMesh
       \/ tasks[t].pc = "haveModel" /\ tasks[t].res = 0

\* C6: a model-select whose load fails changes neither the active model, the
\* image, the color, the scene nor the material of any object.
C6_FailedSelectChangesNothing ==
    [][\A t \in Slots :
          FailingSelectStep(t)
              => /\ activeModel' = activeModel
                 /\ activeImage' = activeImage
                 /\ color' = color
                 /\ scene' = scene
                 /\ \A o \in DOMAIN material : material'[o] = material[o]]_vars
\* a model is shown, textured, and a select whose load failed is returning
C6_Witness ==
    /\ activeModel # 0 /\ scene = {activeModel}
    /\ material[activeModel] # OrigMaterial
    /\ \E t \in Slots : /\ tasks[t].kind = "select"
                        /\ tasks[t].pc = "haveModel" /\ tasks[t].res = 0

\* C7: no failure is fatal: once startup has settled and nothing is in
\* flight the listeners are registered and the render loop runs, also when
\* the startup select's load was rejected.
C7_FailuresAbsorbed ==
    (pcMain # "start" /\ queue = <<>> /\ \A t \in Slots : tasks[t] = Idle)
        => (listeners /\ loopStarted)

\* C8: once no model-select is in flight, the active model and the one mesh
\* in the scene are those of the select whose load completed last.
C8_LastCompletedWins ==
    (InFlight("select") = {} /\ lastLoaded # 0)
        => (activeModel = lastLoaded /\ scene = {lastLoaded})

\* C9: a loadGLTFObject that fails (the load rejects, or the first child is
\* no mesh) leaves the cache as it was.
C9_FailedLoadLeavesCache ==
    [][\A t \in Slots :
          (/\ tasks[t].kind = "select"
           /\ tasks'[t] # tasks[t]
           /\ \/ tasks[t].pc = "loadRejected"
              \/ tasks[t].pc = "loadFulfilled" /\ ~objects[tasks[t].res].isMesh)
              => ModelCache' = ModelCache]_vars
\* a loadGLTFObject has returned null while the cache holds another entry
C9_Witness ==
    /\ \E n \in Names : ModelCache[n] # 0
    /\ \E t \in Slots : /\ tasks[t].kind = "select"
                        /\ tasks[t].pc = "haveModel" /\ tasks[t].res = 0
                        /\ ModelCache[tasks[t].arg] = 0

\* C10 as stated: every color input sets the color, and when a model is
\* active its mesh's material is afterwards the composite of the model's
\* name, the new color and the current image.
C10_ColorLiveAnyModel ==
    [][\A v \in Colors :
          ColorInput(v)
              => /\ color' = v
                 /\ activeModel # 0
                      => material'[activeModel] =
                           Composite(NameOf(activeModel), v, activeImage)]_vars
\* C10, amended: every color input sets the color, and when a model with a
\* registered drawing routine is active its mesh's material is afterwards
\* the composite of the model's name, the new color and the current image.
C10_ColorLive ==
    [][\A v \in Colors :
          ColorInput(v)
              => /\ color' = v
                 /\ (activeModel # 0 /\ NameOf(activeModel) \in Registered)
                      => material'[activeModel] =
                           Composite(NameOf(activeModel), v, activeImage)]_vars
\* two color inputs were handled, the second with a registered model shown:
\* an earlier model keeps the first color, the shown one has the second
C10_Witness ==
    /\ activeModel # 0 /\ NameOf(activeModel) \in Registered
    /\ scene = {activeModel}
    /\ color = "#ffffff" /\ material[activeModel].fill = "#ffffff"
    /\ \E o \in DOMAIN material : material[o].fill = "#112233"

\* the steps of an image upload whose file cannot be decoded: the dispatch
\* of its change event, the settling of its decode and the listener's catch
UndecodableUploadStep ==
    \/ \E f \in Files : ~Decodable(f) /\ ImageUploadChange(f)
    \/ \E t \in Slots : /\ tasks[t].kind = "upload"
                        /\ ~Decodable(tasks[t].arg)
                        /\ tasks'[t] # tasks[t]

\* C11: an image upload whose file cannot be decoded keeps activeImage and
\* leaves every material, the active model, the color and the scene as they
\* were.
C11_FailedDecodeIsNoOp ==
    [][UndecodableUploadStep
          => /\ activeImage' = activeImage
             /\ material' = material
             /\ activeModel' = activeModel
             /\ color' = color
             /\ scene' = scene]_vars
\* the decode of an upload has failed while a registered model shows an
\* image uploaded before
C11_Witness ==
    /\ activeModel # 0 /\ NameOf(activeModel) \in Registered
    /\ activeImage # NoImage
    /\ material[activeModel].image = activeImage.file
    /\ \E t \in Slots : tasks[t].kind = "upload" /\ tasks[t].pc = "decodeFailed"

\* the cushion routine's target region: the canvas less the 200 unit inset
\* on each side
CushionRegion == Whole(CanvasSize - 2 * 200)

\* C12: the cushion routine draws the image with its aspect ratio kept
\* (drawn width : drawn height = image width : image height), a wider than
\* tall image at the region's width and a taller than wide one at the
\* region's height.
C12_CushionKeepsAspect ==
    (pcMain = "drawn" /\ NameOf(activeModel) = "cushion")
        => LET m == material[activeModel]
           IN  /\ RMul(m.w, Whole(activeImage.height)) =
                      RMul(m.h, Whole(activeImage.width))
               /\ activeImage.width >= activeImage.height
                      => m.w = CushionRegion
               /\ activeImage.width <= activeImage.height
                      => m.h = CushionRegion

\* C13: a model without a registered drawing routine keeps the material it
\* was loaded with through every step: a model-select, an image-upload and a
\* color-change neither clear nor replace it.
C13_UnregisteredMaterialKept ==
    [][\A o \in 1 .. Len(material) :
          NameOf(o) \notin Registered
              => /\ material'[o] = material[o]
                 /\ material[o] = OrigMaterial]_vars

C13_Witness ==
    /\ activeModel # 0
    /\ NameOf(activeModel) \notin Registered
    /\ scene = {activeModel}
    /\ activeImage # NoImage
    /\ color = "#112233"
    /\ material[activeModel] = OrigMaterial

\* the startup select (line 277) is still running
StartupSelectInFlight == \E t \in Slots : tasks[t].initial

\* C14: with a radio input checked at startup, the startup select is over
\* before a listener exists and before the render loop starts: while it runs
\* no listener is registered and no event handler runs, and at the step that
\* starts the loop no select is in flight and the model it loaded is the
\* active model, alone in the scene, wearing the material composited from
\* the current image and color.
C14_StartupSelectFirst ==
    [][/\ StartupSelectInFlight => ~listeners /\ ~loopStarted
       /\ (events' # events /\ pcMain # "start") => ~StartupSelectInFlight
       /\ (loopStarted' /\ ~loopStarted /\ checked # NoName)
             => /\ \A t \in Slots : tasks[t] = Idle
                /\ events = 1
                /\ ModelCache[checked] # 0
                      => /\ activeModel = ModelCache[checked]
                         /\ scene = {activeModel}
                         /\ material[activeModel] =
                               IF checked \in Registered
                               THEN Composite(checked, color, activeImage)
                               ELSE OrigMaterial]_vars

C14_Witness ==
    /\ pcMain = "running" /\ loopStarted
    /\ events = 1
    /\ checked \in Registered
    /\ activeModel # 0 /\ NameOf(activeModel) = checked
    /\ scene = {activeModel}
    /\ material[activeModel] = Composite(checked, color, activeImage)

\* C15: a successful select of the identifier that is already active ends
\* with exactly one mesh in the scene, the active one, activeModel naming
\* the same identifier, and that mesh wearing the material composited from
\* the current image and color.
C15_ReselectKeepsOneMesh ==
    [][\A t \in Slots :
          (SetActiveModelAdd(t) /\ tasks[t].pc = "retextured")
              => /\ activeModel' # 0
                 /\ NameOf(activeModel') = tasks[t].arg
                 /\ scene' = {activeModel'}
                 /\ NameOf(activeModel') \in Registered
                       => material'[activeModel'] =
                             Composite(tasks[t].arg, color', activeImage')]_vars

\* C16: when a decode completes, the new image is composited onto the model
\* that is active then, whichever model was active when the upload was
\* dispatched, and no other model's material is touched.
C16_DecodeTexturesCurrentModel ==
    [][\A t \in Slots :
          (ImageUploadResume(t) /\ tasks[t].pc = "decoded")
              => /\ NameOf(activeModel) \in Registered
                       => material'[activeModel] =
                             Composite(NameOf(activeModel), color,
                                       Bitmap(tasks[t].arg))
                 /\ \A o \in 1 .. Len(material) :
                       o # activeModel => material'[o] = material[o]]_vars

\* a decode has completed after a select swapped the active model, both
\* models having a drawing routine
C16_Witness ==
    \E t \in Slots :
        /\ tasks[t].kind = "upload" /\ tasks[t].pc = "decoded"
        /\ tasks[t].res # activeModel
        /\ NameOf(tasks[t].res) \in Registered
        /\ NameOf(activeModel) \in Registered
        /\ scene = {activeModel}

\* C17: with several uploads being decoded at once, each decode that
\* completes successfully makes its bitmap the active image and the image of
\* the active mesh's material, whatever the order of dispatch; a failed
\* decode leaves the active image alone; and nothing else changes the active
\* image, so after the last completion it is the bitmap of the successful
\* upload that completed last.
C17_LastDecodedWins ==
    [][/\ \A t \in Slots :
            ImageUploadResume(t)
                => IF tasks[t].pc = "decoded"
                   THEN /\ activeImage' = Bitmap(tasks[t].arg)
                        /\ NameOf(activeModel) \in Registered
                              => material'[activeModel].image = tasks[t].arg
                   ELSE /\ activeImage' = activeImage
                        /\ material' = material
       /\ activeImage' # activeImage
             => \E t \in Slots : /\ ImageUploadResume(t)
                                 /\ tasks[t].pc = "decoded"]_vars

\* two uploads of different images are in flight, one decoded and about to
\* resume while the other is still being decoded
C17_Witness ==
    \E t, u \in Slots :
        /\ tasks[t].kind = "upload" /\ tasks[t].pc = "decoded"
        /\ tasks[u].kind = "upload" /\ tasks[u].pc = "decoding"
        /\ tasks[t].arg # tasks[u].arg
        /\ Decodable(tasks[u].arg)
        /\ NameOf(activeModel) \in Registered

\* the cup routine's target region (originalImageWidth by
\* originalImageHeight)
CupRegionWidth == RSub(Whole(CanvasSize), Rat(CanvasSize, 4))

CupRegionHeight == Whole(CanvasSize)

\* C18: for every image of positive width and height, the width and height
\* the cup and cushion routines hand to drawImage are strictly positive and
\* no larger than the routine's region (cup: 1536 by 2048, cushion: 1648 by
\* 1648).
C18_DrawnExtentWithinRegion ==
    pcMain = "drawn"
        => LET m == material[activeModel]
               regionW == IF NameOf(activeModel) = "cup"
                          THEN CupRegionWidth ELSE CushionRegion
               regionH == IF NameOf(activeModel) = "cup"
                          THEN CupRegionHeight ELSE CushionRegion
           IN  /\ RLess(Whole(0), m.w) /\ ~RLess(regionW, m.w)
               /\ RLess(Whole(0), m.h) /\ ~RLess(regionH, m.h)
====
